---- MODULE Spec2Model ----
(***************************************************************************)
(* Model of the Angel interactive assistant core:                          *)
(*   - RecommendationEngine (decision_engine/recommendation.py)            *)
(*   - DeviceManager        (device_control/device_manager.py)             *)
(*   - ConversationGenerator (content_generator/conversation.py)           *)
(*   - the device and recommendation handlers of the API (api/main.py)     *)
(*                                                                         *)
(* Conventions.                                                            *)
(*   Priorities are held in tenths (0.7 is 7, 1.0 is 10) and confidences   *)
(*   in hundredths (0.92 is 92): every number the engine adds or compares  *)
(*   is a multiple of 0.1 (priorities) or is only compared with the        *)
(*   threshold (confidences), so the decimal values are exact here.        *)
(*   Python dicts are functions; d.get(k, v) is DictGet(d, k, v).          *)
(*   The timestamp fields (datetime.now().isoformat()) and the fields      *)
(*   drawn with random.choice (genre, topic) are left out of the stored    *)
(*   records: no operation of the engine reads them back.  The topic a     *)
(*   conversation is given by random.choice is any of the available ones.  *)
(***************************************************************************)
EXTENDS Integers, Sequences, FiniteSets, TLC

VARIABLES
    config,                  \* RecommendationEngine.config (the parts the engine reads)
    decision_rules,          \* RecommendationEngine.decision_rules
    user_profile,            \* RecommendationEngine.user_profile (NoProfile is None)
    last_recommendations,    \* RecommendationEngine.last_recommendations
    recommendation_history,  \* RecommendationEngine.recommendation_history
    device_controllers,      \* DeviceManager.device_controllers: the registered types,
                             \*   in the order of registration
    last_call,               \* the last call made to the DeviceManager and its arguments
    steps,                   \* the execute_action calls that call made, in order, each
                             \*   with its result and the controller calls it issued
    results,                 \* execute_scenario's local dict "results" when it returned
    returned,                \* the value the last call returned
    tasks,                   \* the requests received by the API: for each, how far
                             \*   its handler has got on the event loop
    wall_clock,              \* datetime.now(): the minute of the day and the weekday
    last_time_context,       \* the value get_time_context returned last
    conversation_history,    \* ConversationGenerator.conversation_history
    current_conversation_id, \* ConversationGenerator.current_conversation_id
    current_turn,            \* ConversationGenerator.current_turn
    reply                    \* the value the ConversationGenerator returned last

engine_vars == <<config, decision_rules, user_profile, last_recommendations,
                 recommendation_history>>

device_vars == <<device_controllers, last_call, steps, results, returned, tasks>>

clock_vars == <<wall_clock, last_time_context>>

generator_vars == <<conversation_history, current_conversation_id, current_turn, reply>>

vars == <<config, decision_rules, user_profile, last_recommendations,
          recommendation_history, device_controllers, last_call, steps, results,
          returned, tasks, wall_clock, last_time_context, conversation_history,
          current_conversation_id, current_turn, reply>>

(***************************************************************************)
(* Bounds of the model.                                                    *)
(***************************************************************************)
MaxHistory == 3          \* get_recommendations calls per behaviour of Spec
MaxDeepHistory == 5      \* get_recommendations calls per behaviour of SpecDeep
MaxOpsHistory == 2       \* get_recommendations calls per behaviour of SpecOps
MaxActivityHistory == 2  \* analyze_activity calls on one loaded profile in SpecOps
MaxRequests == 2         \* requests received per behaviour of SpecServe, SpecRecommend
MaxConversations == 2    \* conversations started per behaviour of SpecConversation
MaxStoredTurns == 4      \* turns after which a conversation is no longer continued

(***************************************************************************)
(* Generic helpers for Python lists and dicts.                             *)
(***************************************************************************)
Max(a, b) == IF a >= b THEN a ELSE b
Min(a, b) == IF a <= b THEN a ELSE b

\* x in lst
Contains(lst, x) == \E i \in 1..Len(lst) : lst[i] = x

\* lst.count(x)
Count(lst, x) == Cardinality({i \in 1..Len(lst) : lst[i] = x})

\* lst.index(x), for x in lst
IndexOf(lst, x) == CHOOSE i \in 1..Len(lst) :
                       lst[i] = x /\ \A j \in 1..(i - 1) : lst[j] # x

\* lst.remove(x), for x in lst: drops the first occurrence only
RemoveFirst(lst, x) ==
    LET k == IndexOf(lst, x)
    IN  [i \in 1..(Len(lst) - 1) |-> IF i < k THEN lst[i] ELSE lst[i + 1]]

\* lst[-n:]
LastN(lst, n) == IF Len(lst) <= n THEN lst ELSE SubSeq(lst, Len(lst) - n + 1, Len(lst))

\* d.get(k, default)
DictGet(d, k, default) == IF k \in DOMAIN d THEN d[k] ELSE default

RECURSIVE Flatten(_)
\* [item for sublist in lists for item in sublist]
Flatten(lists) == IF lists = <<>> THEN <<>> ELSE Head(lists) \o Flatten(Tail(lists))

(***************************************************************************)
(* Configuration and inputs.                                               *)
(***************************************************************************)
\* self.threshold_confidence, in hundredths
threshold_confidence == 60

NoProfile == [loaded |-> FALSE]

\* The configurations explored.  Each is one config.json: the decision rule
\* table (which must hold a "default" entry), the named playlists of the
\* music player and the conversation turn limit.
ConfigA ==
    [decision_rules |-> [manger  |-> <<"diffuser_musique">>,
                         inactif |-> <<"engager_conversation", "diffuser_musique">>,
                         default |-> <<"recommander_programme", "suggerer_boisson">>],
     playlists |-> [repas |-> "playlist_repas_id", ambiance |-> "playlist_ambiance_id"],
     max_turns |-> 5]

\* a table with repeated entries and with both a generic type and its variant
ConfigB ==
    [decision_rules |-> [manger  |-> <<"diffuser_musique", "diffuser_musique_classique">>,
                         inactif |-> <<"diffuser_musique", "diffuser_musique",
                                       "engager_conversation">>,
                         default |-> <<"suggerer_boisson", "recommander_programme",
                                       "recommander_programme", "recommander_programme">>],
     playlists |-> [ambiance |-> "playlist_ambiance_id"],
     max_turns |-> 5]

\* a table without an entry for "inactif", and a type the engine does not know
ConfigC ==
    [decision_rules |-> [manger  |-> <<"diffuser_musique", "appeler_proche">>,
                         default |-> <<"raconter_histoire", "diffuser_musique">>],
     playlists |-> [repas |-> "playlist_repas_id"],
     max_turns |-> 5]

Configs == {ConfigA, ConfigB, ConfigC}

UserIds == {"u1"}

\* activity_data as received by get_recommendations: a confidence below, at
\* and above the threshold
Observations == {[activity |-> "manger", confidence |-> 92],
                 [activity |-> "manger", confidence |-> 30],
                 [activity |-> "inactif", confidence |-> 60],
                 [activity |-> "inactif", confidence |-> 30]}

\* the recommendation types of the engine, and one it does not know
RecTypes == {"diffuser_musique", "diffuser_musique_classique", "raconter_histoire",
             "engager_conversation", "recommander_programme", "recommander_documentaire",
             "suggerer_activite", "suggerer_boisson", "suggerer_actualites",
             "suggerer_activite_exterieure", "appeler_proche"}

\* datetime.now(): minute of the day and weekday (0 = Monday)
Clock == {[minute |-> 480, weekday |-> 0],      \* Monday 08:00
          [minute |-> 1380, weekday |-> 2],     \* Wednesday 23:00
          [minute |-> 1380, weekday |-> 5]}     \* Saturday 23:00

(***************************************************************************)
(* RecommendationEngine                                                    *)
(***************************************************************************)
\* load_user_profile: the simulated profile built for user_id
NewProfile(user_id) ==
    [loaded |-> TRUE,
     id |-> user_id,
     preferences |-> [music_genres |-> <<"classique", "jazz", "ambiance">>,
                      tv_programs |-> <<"documentaires", "films", "actualités">>,
                      story_topics |-> <<"aventure", "histoire", "science">>],
     activity_history |-> <<>>,
     feedback_history |-> <<>>]

\* "if self.user_profile"
HasProfile(profile) == profile.loaded

\* variant of GetTimeContext: the boundaries belong to the period that ends
GetTimeContext_ClosedRight(now) ==
    LET m == now.minute
        morning == 360 < m /\ m <= 720
        afternoon == 720 < m /\ m <= 1080
        evening == 1080 < m /\ m <= 1320
    IN  [time_of_day |-> IF morning THEN "morning"
                         ELSE IF afternoon THEN "afternoon"
                         ELSE IF evening THEN "evening" ELSE "night",
         hour |-> m \div 60,
         weekday |-> now.weekday,
         weekend |-> now.weekday >= 5]

\* get_time_context, for now = datetime.now()
GetTimeContext(now) ==
    LET m == now.minute
        morning == 360 <= m /\ m < 720
        afternoon == 720 <= m /\ m < 1080
        evening == 1080 <= m /\ m < 1320
    IN  [time_of_day |-> IF morning THEN "morning"
                         ELSE IF afternoon THEN "afternoon"
                         ELSE IF evening THEN "evening" ELSE "night",
         hour |-> m \div 60,
         weekday |-> now.weekday,
         weekend |-> now.weekday >= 5]

\* analyze_activity: the pair returned and the profile after the call
AnalyzeActivity(profile, activity_data) ==
    LET activity == DictGet(activity_data, "activity", "inconnu")
        confidence == DictGet(activity_data, "confidence", 0)
    IN  [activity |-> activity,
         confidence |-> confidence,
         profile |-> IF HasProfile(profile)
                     THEN [profile EXCEPT !.activity_history =
                              Append(@, [activity |-> activity, confidence |-> confidence])]
                     ELSE profile]

\* variant of ResolveActivity: the threshold itself counts as too low
ResolveActivity_AtThreshold(activity, confidence) ==
    IF confidence <= threshold_confidence THEN "default" ELSE activity

\* "if confidence < self.threshold_confidence: activity = 'default'"
ResolveActivity(activity, confidence) ==
    IF confidence < threshold_confidence THEN "default" ELSE activity

\* variant of RuleLookup: the "default" entry whatever the activity
RuleLookup_AlwaysDefault(rules, activity) == rules["default"]

\* self.decision_rules.get(activity, self.decision_rules["default"])
RuleLookup(rules, activity) == DictGet(rules, activity, rules["default"])

\* _adjust_for_context
AdjustForContext(recommendations, time_context, activity) ==
    LET a0 == recommendations
        a1 == IF time_context.time_of_day = "night"
                 /\ Contains(a0, "diffuser_musique") /\ activity # "manger"
              THEN RemoveFirst(a0, "diffuser_musique") ELSE a0
        a2 == IF time_context.time_of_day = "night"
                 /\ ~Contains(a1, "raconter_histoire") /\ activity = "inactif"
              THEN Append(a1, "raconter_histoire") ELSE a1
        a3 == IF time_context.time_of_day = "morning"
                 /\ ~Contains(a2, "suggerer_actualites") /\ activity = "inactif"
              THEN Append(a2, "suggerer_actualites") ELSE a2
        a4 == IF time_context.weekend
                 /\ ~Contains(a3, "suggerer_activite_exterieure") /\ activity = "inactif"
              THEN Append(a3, "suggerer_activite_exterieure") ELSE a3
    IN  a4

\* personalized[personalized.index(generic)] = variant
ReplaceFirst(lst, generic, variant) == [lst EXCEPT ![IndexOf(lst, generic)] = variant]

\* variant of PersonalizeRecommendations: the variant is appended, the generic kept
PersonalizeRecommendations_Append(profile, recommendations) ==
    LET p0 == recommendations
        p1 == IF HasProfile(profile) /\ Contains(p0, "recommander_programme")
              THEN Append(p0, "recommander_documentaire") ELSE p0
        p2 == IF HasProfile(profile) /\ Contains(p1, "diffuser_musique")
              THEN Append(p1, "diffuser_musique_classique") ELSE p1
    IN  p2

\* _personalize_recommendations
PersonalizeRecommendations(profile, recommendations) ==
    LET p0 == recommendations
        p1 == IF HasProfile(profile) /\ Contains(p0, "recommander_programme")
                 /\ Contains(profile.preferences.tv_programs, "documentaires")
              THEN ReplaceFirst(p0, "recommander_programme", "recommander_documentaire")
              ELSE p0
        p2 == IF HasProfile(profile) /\ Contains(p1, "diffuser_musique")
                 /\ Contains(profile.preferences.music_genres, "classique")
              THEN ReplaceFirst(p1, "diffuser_musique", "diffuser_musique_classique")
              ELSE p1
    IN  p2

\* base_priorities.get(rec_type, 0.5), in tenths
BasePriority(rec_type) ==
    CASE rec_type = "diffuser_musique" -> 7
      [] rec_type = "diffuser_musique_classique" -> 7
      [] rec_type = "raconter_histoire" -> 8
      [] rec_type = "engager_conversation" -> 9
      [] rec_type = "recommander_programme" -> 6
      [] rec_type = "recommander_documentaire" -> 6
      [] rec_type = "suggerer_activite" -> 5
      [] rec_type = "suggerer_boisson" -> 4
      [] rec_type = "suggerer_actualites" -> 5
      [] rec_type = "suggerer_activite_exterieure" -> 5
      [] OTHER -> 5

\* variant of RecentTypes: only the last 2 stored batches are read
RecentTypes_LastTwo(history) ==
    LET recent == LastN(history, 2)
        flat == Flatten([i \in 1..Len(recent) |-> recent[i].recommendations])
    IN  [i \in 1..Len(flat) |-> flat[i].type]

\* flat_list: the types of the candidates of the last 3 stored batches
RecentTypes(history) ==
    LET recent == LastN(history, 3)
        flat == Flatten([i \in 1..Len(recent) |-> recent[i].recommendations])
    IN  [i \in 1..Len(flat) |-> flat[i].type]

\* variant of DecayedPriority: the floor of 0.1 is missing
DecayedPriority_NoFloor(rec_type, history) ==
    LET flat_list == RecentTypes(history)
    IN  IF Len(history) > 0 /\ Contains(flat_list, rec_type)
        THEN BasePriority(rec_type) - 1 * Count(flat_list, rec_type)
        ELSE BasePriority(rec_type)

\* _calculate_priority up to the history adjustment (before the activity boost)
DecayedPriority(rec_type, history) ==
    LET flat_list == RecentTypes(history)
    IN  IF Len(history) > 0 /\ Contains(flat_list, rec_type)
        THEN Max(1, BasePriority(rec_type) - 1 * Count(flat_list, rec_type))
        ELSE BasePriority(rec_type)

\* variant of ActivityBoost: the two boosts exchanged
ActivityBoost_Swapped(rec_type, activity) ==
    IF activity = "manger"
       /\ rec_type \in {"diffuser_musique", "diffuser_musique_classique"}
    THEN 3
    ELSE IF activity = "inactif"
            /\ rec_type \in {"raconter_histoire", "engager_conversation"}
    THEN 2
    ELSE 0

\* the activity boost of _calculate_priority
ActivityBoost(rec_type, activity) ==
    IF activity = "manger"
       /\ rec_type \in {"diffuser_musique", "diffuser_musique_classique"}
    THEN 2
    ELSE IF activity = "inactif"
            /\ rec_type \in {"raconter_histoire", "engager_conversation"}
    THEN 3
    ELSE 0

\* _calculate_priority
CalculatePriority(rec_type, activity, history) ==
    Min(10, Max(0, DecayedPriority(rec_type, history) + ActivityBoost(rec_type, activity)))

\* variant of RecommendationParams: the playlist is always looked up under "ambiance"
RecommendationParams_AmbianceKey(cfg, rec_type, activity) ==
    IF rec_type \in {"diffuser_musique", "diffuser_musique_classique"}
    THEN [playlist |-> DictGet(cfg.playlists, "ambiance", "playlist_ambiance"),
          volume |-> IF activity = "manger" THEN 40 ELSE 30]
    ELSE [empty |-> TRUE]

\* the params of _get_recommendation_details (without the random.choice fields)
RecommendationParams(cfg, rec_type, activity) ==
    IF rec_type \in {"diffuser_musique", "diffuser_musique_classique"}
    THEN [playlist |-> DictGet(cfg.playlists,
                               IF activity = "manger" THEN "repas" ELSE "ambiance",
                               "playlist_ambiance"),
          volume |-> IF activity = "manger" THEN 40 ELSE 30]
    ELSE IF rec_type = "raconter_histoire"
    THEN [duration_min |-> 2, complexity |-> "medium"]
    ELSE IF rec_type = "engager_conversation"
    THEN [style |-> "casual", max_turns |-> cfg.max_turns]
    ELSE IF rec_type \in {"recommander_programme", "recommander_documentaire"}
    THEN [category |-> IF rec_type = "recommander_documentaire"
                       THEN "documentaire" ELSE "divertissement",
          duration_min |-> 30,
          rating_min |-> 40]
    ELSE [empty |-> TRUE]

\* _get_recommendation_details
GetRecommendationDetails(cfg, history, rec_type, activity) ==
    [type |-> rec_type,
     priority |-> CalculatePriority(rec_type, activity, history),
     params |-> RecommendationParams(cfg, rec_type, activity)]

\* get_recommendations: the batch built (stored and returned) and the profile after it
BuildBatch(cfg, rules, profile, history, activity_data, now) ==
    LET analysed == AnalyzeActivity(profile, activity_data)
        activity == ResolveActivity(analysed.activity, analysed.confidence)
        time_context == GetTimeContext(now)
        rule_based == RuleLookup(rules, activity)
        context_adjusted == AdjustForContext(rule_based, time_context, activity)
        personalized == IF HasProfile(analysed.profile)
                        THEN PersonalizeRecommendations(analysed.profile, context_adjusted)
                        ELSE context_adjusted
        recommendations == [i \in 1..Len(personalized) |->
                               GetRecommendationDetails(cfg, history, personalized[i], activity)]
    IN  [batch |-> [activity |-> activity,
                    confidence |-> analysed.confidence,
                    recommendations |-> recommendations],
         profile |-> analysed.profile]

EngineInit ==
    /\ config \in Configs
    /\ decision_rules = config.decision_rules
    /\ user_profile = NoProfile
    /\ last_recommendations = [empty |-> TRUE]
    /\ recommendation_history = <<>>

LoadUserProfile(user_id) ==
    /\ user_profile' = NewProfile(user_id)
    /\ UNCHANGED <<config, decision_rules, last_recommendations, recommendation_history>>
    /\ UNCHANGED <<device_vars, clock_vars, generator_vars>>

\* variant of GetRecommendationsCall: the new batch is stored in front of the
\* history instead of at its end
GetRecommendationsCall_Prepend(activity_data, now) ==
    /\ LET built == BuildBatch(config, decision_rules, user_profile,
                               recommendation_history, activity_data, now)
       IN  /\ user_profile' = built.profile
           /\ last_recommendations' = built.batch
           /\ recommendation_history' = <<built.batch>> \o recommendation_history
    /\ UNCHANGED <<config, decision_rules>>
    /\ UNCHANGED <<device_vars, clock_vars, generator_vars>>

\* get_recommendations
GetRecommendationsCall(activity_data, now) ==
    /\ LET built == BuildBatch(config, decision_rules, user_profile,
                               recommendation_history, activity_data, now)
       IN  /\ user_profile' = built.profile
           /\ last_recommendations' = built.batch
           /\ recommendation_history' = Append(recommendation_history, built.batch)
    /\ UNCHANGED <<config, decision_rules>>
    /\ UNCHANGED <<device_vars, clock_vars, generator_vars>>

(***************************************************************************)
(* DeviceManager                                                           *)
(***************************************************************************)
\* Python values held in the params dicts: None, strings, integers, dicts
PyNone == [kind |-> "none"]
PyStr(s) == [kind |-> "str", val |-> s]
PyInt(n) == [kind |-> "int", val |-> n]
PyDict(d) == [kind |-> "dict", val |-> d]

\* truth value of a Python value (None, "", 0 and {} are false)
Truthy(v) == CASE v.kind = "none" -> FALSE
               [] v.kind = "str" -> v.val # ""
               [] v.kind = "int" -> v.val # 0
               [] v.kind = "dict" -> DOMAIN v.val # {}

\* {} and dict assignment d[k] = v
EmptyDict == [k \in {} |-> TRUE]
DictPut(d, k, v) == [x \in (DOMAIN d) \cup {k} |-> IF x = k THEN v ELSE d[x]]

\* variant of AllSuccess: one successful step is enough
AllSuccess_Any(d) == \E k \in DOMAIN d : DictGet(d[k], "success", FALSE)

\* all(r.get("success", False) for r in results.values())
AllSuccess(d) == \A k \in DOMAIN d : DictGet(d[k], "success", FALSE)

\* the controllers _initialize_controllers can register, in its order
DeviceTypes == <<"tv", "music_player", "lights">>

\* the device sections a config.json may hold
DeviceConfigs == {<<"tv", "music_player", "lights">>,
                  <<"music_player", "lights">>,
                  <<"tv", "lights">>,
                  <<>>}

\* what the TV answers to a program search: nothing, programs with an id, a
\* program without an id, a program with an empty id
ProgramLists == {<<>>,
                 << [id |-> PyStr("p1")], [id |-> PyStr("p2")] >>,
                 << [title |-> PyStr("t1")] >>,
                 << [id |-> PyStr("")] >>}

\* the params a scenario request may carry
ScenarioParams == {EmptyDict,
                   [category |-> PyStr("documentaire"), volume |-> PyInt(35)],
                   [volume |-> PyNone, playlist |-> PyStr(""), genre |-> PyStr("jazz")]}

ScenarioNames == {"movie_time", "dinner_music", "relax_mode", "all_off",
                  "party", "Movie_Time"}

\* what the devices answer during one scenario: the outcome of the i-th
\* controller call that reports success or failure, and the program list
ScenarioEnvs == [ok : [1..4 -> BOOLEAN], programs : ProgramLists]

\* what a controller answers to one call
Responses == [ok : BOOLEAN, list : ProgramLists]

\* an execute_action that returns an error without calling the controller
ActionFailure(msg) == [result |-> [success |-> FALSE, error |-> msg], calls |-> <<>>]

\* "success = controller.<capability>(arg); return {'success': success}": one
\* call of the controller, whose answer is the result
Invoke(device_type, capability, arg, resp) ==
    [result |-> [success |-> resp.ok],
     calls |-> << [device |-> device_type, capability |-> capability, arg |-> arg] >>]

\* variant of RequireTruthy: the parameter is handed over without validation
RequireTruthy_Unchecked(params, key, msg, device_type, capability, resp) ==
    Invoke(device_type, capability, DictGet(params, key, PyNone), resp)

\* "x = params.get(key); if not x: return error; controller.<capability>(x)"
RequireTruthy(params, key, msg, device_type, capability, resp) ==
    IF ~Truthy(DictGet(params, key, PyNone))
    THEN ActionFailure(msg)
    ELSE Invoke(device_type, capability, params[key], resp)

\* "x = params.get(key); if x is None: return error; controller.<capability>(x)"
RequireNotNone(params, key, msg, device_type, capability, resp) ==
    IF DictGet(params, key, PyNone) = PyNone
    THEN ActionFailure(msg)
    ELSE Invoke(device_type, capability, params[key], resp)

\* variant of UnsupportedAction: the unknown action is reported as done
UnsupportedAction_Succeeds(action_type, device_type) ==
    [result |-> [success |-> TRUE], calls |-> <<>>]

\* the fall-through of execute_action: "Action non prise en charge"
UnsupportedAction(action_type, device_type) ==
    ActionFailure("Action non prise en charge")

\* execute_action once the controller is found: the try block
DispatchAction(action_type, device_type, params, resp) ==
    IF action_type = "turn_on" THEN Invoke(device_type, "turn_on", PyNone, resp)
    ELSE IF action_type = "turn_off" THEN Invoke(device_type, "turn_off", PyNone, resp)
    ELSE IF action_type = "get_status"
    THEN [result |-> [success |-> TRUE, status |-> resp.ok],
          calls |-> << [device |-> device_type, capability |-> "get_status",
                        arg |-> PyNone] >>]
    ELSE IF device_type = "tv"
    THEN IF action_type = "change_channel"
         THEN RequireTruthy(params, "channel_id", "ID de chaîne requis",
                            device_type, "change_channel", resp)
         ELSE IF action_type = "set_volume"
         THEN RequireNotNone(params, "volume", "Volume requis",
                             device_type, "set_volume", resp)
         ELSE IF action_type = "get_channels"
         THEN [result |-> [success |-> TRUE, channels |-> resp.list],
               calls |-> << [device |-> device_type, capability |-> "get_channels",
                             arg |-> PyNone] >>]
         ELSE IF action_type = "search_programs"
         THEN [result |-> [success |-> TRUE, programs |-> resp.list],
               calls |-> << [device |-> device_type, capability |-> "search_programs",
                             arg |-> [category |-> DictGet(params, "category", PyNone),
                                      query |-> DictGet(params, "query", PyNone)]] >>]
         ELSE IF action_type = "play_program"
         THEN RequireTruthy(params, "program_id", "ID de programme requis",
                            device_type, "play_program", resp)
         ELSE UnsupportedAction(action_type, device_type)
    ELSE IF device_type = "music_player"
    THEN IF action_type = "play_playlist"
         THEN RequireTruthy(params, "playlist_name", "Nom de playlist requis",
                            device_type, "play_playlist", resp)
         ELSE IF action_type = "set_volume"
         THEN RequireNotNone(params, "volume", "Volume requis",
                             device_type, "set_volume", resp)
         ELSE IF action_type = "play_genre"
         THEN RequireTruthy(params, "genre", "Genre requis",
                            device_type, "play_genre", resp)
         ELSE UnsupportedAction(action_type, device_type)
    ELSE IF device_type = "lights"
    THEN IF action_type = "set_scene"
         THEN RequireTruthy(params, "scene_name", "Nom de scène requis",
                            device_type, "set_scene", resp)
         ELSE IF action_type = "set_state"
         THEN RequireTruthy(params, "state", "État requis",
                            device_type, "set_all_lights", resp)
         ELSE UnsupportedAction(action_type, device_type)
    ELSE UnsupportedAction(action_type, device_type)

\* variant of ExecuteAction: the registry is not consulted
ExecuteAction_NoRegistryCheck(controllers, action_type, device_type, params, resp) ==
    DispatchAction(action_type, device_type, params, resp)

\* execute_action: the dict returned and the controller calls issued.  Every
\* controller method catches its own exceptions and reports False or [], so
\* the except clause of execute_action is never entered.
ExecuteAction(controllers, action_type, device_type, params, resp) ==
    IF ~Contains(controllers, device_type)
    THEN ActionFailure("Appareil non pris en charge")
    ELSE DispatchAction(action_type, device_type, params, resp)

\* one execute_action call of a scenario, as logged in steps; label is the key
\* its result is stored under in results ("" when it is not stored)
Step(controllers, label, action_type, device_type, params, resp) ==
    LET done == ExecuteAction(controllers, action_type, device_type, params, resp)
    IN  [label |-> label, action_type |-> action_type, device_type |-> device_type,
         params |-> params, result |-> done.result, calls |-> done.calls]

\* results after the steps logged so far: results[label] = result, in order
RECURSIVE Collect(_)
Collect(log) ==
    IF log = <<>> THEN EmptyDict
    ELSE LET front == SubSeq(log, 1, Len(log) - 1)
             last == log[Len(log)]
         IN  IF last.label = "" THEN Collect(front)
             ELSE DictPut(Collect(front), last.label, last.result)

\* the return statement shared by the four scenarios
ScenarioReturn(log) ==
    [returned |-> [success |-> AllSuccess(Collect(log)), results |-> Collect(log)],
     results |-> Collect(log),
     steps |-> log]

\* the except clause of execute_scenario: the steps made so far are dropped
ScenarioExcept(log, message) ==
    [returned |-> [success |-> FALSE, error |-> message],
     results |-> Collect(log),
     steps |-> log]

\* variant of PlayIfFound: a search without result is recorded as a failed step
PlayIfFound_SkipFails(before, found, program) ==
    IF found THEN Append(before, program)
    ELSE Append(before, [label |-> "program", action_type |-> "play_program",
                         device_type |-> "tv",
                         params |-> EmptyDict,
                         result |-> [success |-> FALSE, error |-> "Aucun programme"],
                         calls |-> <<>>])

\* "if programs.get('success') and programs.get('programs')": the play step
\* is made only when the search found something
PlayIfFound(before, found, program) ==
    IF found THEN Append(before, program) ELSE before

\* execute_scenario, branch "movie_time"
ScenarioMovieTime(controllers, params, env) ==
    LET Answer(i) == [ok |-> env.ok[i], list |-> <<>>]
        lights == Step(controllers, "lights", "set_scene", "lights",
                       [scene_name |-> PyStr("movie")], Answer(1))
        tv == Step(controllers, "tv", "turn_on", "tv", EmptyDict, Answer(2))
        category == DictGet(params, "category", PyStr("film"))
        programs == Step(controllers, "", "search_programs", "tv",
                         [category |-> category], [ok |-> TRUE, list |-> env.programs])
        found == /\ DictGet(programs.result, "success", FALSE)
                 /\ DictGet(programs.result, "programs", <<>>) # <<>>
        first_program == programs.result.programs[1]
        program == Step(controllers, "program", "play_program", "tv",
                        [program_id |-> first_program["id"]], Answer(3))
        volume == DictGet(params, "volume", PyInt(50))
        before == <<lights, tv, programs>>
        played == PlayIfFound(before, found, program)
        volume_step == Step(controllers, "volume", "set_volume", "tv",
                            [volume |-> volume], Answer(4))
    IN  IF found /\ "id" \notin DOMAIN first_program
        THEN ScenarioExcept(before, "KeyError: 'id'")
        ELSE ScenarioReturn(Append(played, volume_step))

\* variant of ScenarioDinnerMusic: the scenario stops at the first failed step
ScenarioDinnerMusic_AbortOnFailure(controllers, params, env) ==
    LET Answer(i) == [ok |-> env.ok[i], list |-> <<>>]
        lights == Step(controllers, "lights", "set_scene", "lights",
                       [scene_name |-> PyStr("dinner")], Answer(1))
        music == Step(controllers, "music", "turn_on", "music_player", EmptyDict, Answer(2))
        playlist_step == Step(controllers, "playlist", "play_playlist", "music_player",
                              [playlist_name |-> DictGet(params, "playlist", PyStr("repas"))],
                              Answer(3))
        volume_step == Step(controllers, "volume", "set_volume", "music_player",
                            [volume |-> DictGet(params, "volume", PyInt(30))], Answer(4))
        all == <<lights, music, playlist_step, volume_step>>
        failed == {i \in 1..4 : ~all[i].result.success}
        stop == IF failed = {} THEN 4 ELSE CHOOSE i \in failed : \A j \in failed : i <= j
    IN  ScenarioReturn(SubSeq(all, 1, stop))

\* execute_scenario, branch "dinner_music"
ScenarioDinnerMusic(controllers, params, env) ==
    LET Answer(i) == [ok |-> env.ok[i], list |-> <<>>]
        lights == Step(controllers, "lights", "set_scene", "lights",
                       [scene_name |-> PyStr("dinner")], Answer(1))
        music == Step(controllers, "music", "turn_on", "music_player", EmptyDict, Answer(2))
        playlist == DictGet(params, "playlist", PyStr("repas"))
        playlist_step == Step(controllers, "playlist", "play_playlist", "music_player",
                              [playlist_name |-> playlist], Answer(3))
        volume == DictGet(params, "volume", PyInt(30))
        volume_step == Step(controllers, "volume", "set_volume", "music_player",
                            [volume |-> volume], Answer(4))
    IN  ScenarioReturn(<<lights, music, playlist_step, volume_step>>)

\* execute_scenario, branch "relax_mode"
ScenarioRelaxMode(controllers, params, env) ==
    LET Answer(i) == [ok |-> env.ok[i], list |-> <<>>]
        lights == Step(controllers, "lights", "set_scene", "lights",
                       [scene_name |-> PyStr("relax")], Answer(1))
        music == Step(controllers, "music", "turn_on", "music_player", EmptyDict, Answer(2))
        genre == DictGet(params, "genre", PyStr("classique"))
        genre_step == Step(controllers, "genre", "play_genre", "music_player",
                           [genre |-> genre], Answer(3))
        volume == DictGet(params, "volume", PyInt(20))
        volume_step == Step(controllers, "volume", "set_volume", "music_player",
                            [volume |-> volume], Answer(4))
    IN  ScenarioReturn(<<lights, music, genre_step, volume_step>>)

\* execute_scenario, branch "all_off"
ScenarioAllOff(controllers, params, env) ==
    ScenarioReturn([i \in 1..Len(controllers) |->
                       Step(controllers, controllers[i], "turn_off", controllers[i],
                            EmptyDict, [ok |-> env.ok[i], list |-> <<>>])])

\* variant of RunScenario: an unknown name switches everything off
RunScenario_UnknownTurnsOff(controllers, scenario_name, params, env) ==
    IF scenario_name = "movie_time" THEN ScenarioMovieTime(controllers, params, env)
    ELSE IF scenario_name = "dinner_music" THEN ScenarioDinnerMusic(controllers, params, env)
    ELSE IF scenario_name = "relax_mode" THEN ScenarioRelaxMode(controllers, params, env)
    ELSE ScenarioAllOff(controllers, params, env)

\* execute_scenario: the value returned, the local results and the steps made
RunScenario(controllers, scenario_name, params, env) ==
    IF scenario_name = "movie_time" THEN ScenarioMovieTime(controllers, params, env)
    ELSE IF scenario_name = "dinner_music" THEN ScenarioDinnerMusic(controllers, params, env)
    ELSE IF scenario_name = "relax_mode" THEN ScenarioRelaxMode(controllers, params, env)
    ELSE IF scenario_name = "all_off" THEN ScenarioAllOff(controllers, params, env)
    ELSE [returned |-> [success |-> FALSE, error |-> "Scénario non pris en charge"],
          results |-> EmptyDict,
          steps |-> <<>>]

NoCall == [op |-> "none"]

\* a request slot of the API that has received nothing yet
NoTask == [status |-> "none"]

\* the DeviceManager before any call
DeviceStart(controllers) ==
    /\ device_controllers = controllers
    /\ last_call = NoCall
    /\ steps = <<>>
    /\ results = EmptyDict
    /\ returned = [empty |-> TRUE]
    /\ tasks = [r \in 1..MaxRequests |-> NoTask]

\* the DeviceManager of the behaviours that only exercise the engine
DeviceIdle == DeviceStart(DeviceTypes)

\* the engine of the behaviours that only exercise the DeviceManager
EngineIdle ==
    /\ config = ConfigA
    /\ decision_rules = config.decision_rules
    /\ user_profile = NoProfile
    /\ last_recommendations = [empty |-> TRUE]
    /\ recommendation_history = <<>>

\* no call to get_time_context yet; the wall clock of the behaviours that
\* pass the time with each call
ClockIdle ==
    /\ wall_clock = [minute |-> 480, weekday |-> 0]
    /\ last_time_context = [empty |-> TRUE]

NoReply == [empty |-> TRUE]

\* ConversationGenerator.__init__
GeneratorInit ==
    /\ conversation_history = <<>>
    /\ current_conversation_id = 0
    /\ current_turn = 0
    /\ reply = NoReply

\* a DeviceManager constructed over any of the device configurations, next
\* to an idle engine and an idle conversation generator
DeviceInit ==
    /\ \E controllers \in DeviceConfigs : DeviceStart(controllers)
    /\ EngineIdle
    /\ ClockIdle
    /\ GeneratorInit

\* execute_scenario
ExecuteScenario(scenario_name, params, env) ==
    LET run == RunScenario(device_controllers, scenario_name, params, env)
    IN  /\ last_call' = [op |-> "execute_scenario", scenario_name |-> scenario_name,
                         params |-> params]
        /\ steps' = run.steps
        /\ results' = run.results
        /\ returned' = run.returned
        /\ UNCHANGED <<device_controllers, tasks>>
        /\ UNCHANGED <<engine_vars, clock_vars, generator_vars>>

\* two sets of device answers: every call succeeds and the search finds two
\* programs; every call fails and the search finds nothing
ActionScenarioEnvs ==
    {[ok |-> [i \in 1..4 |-> TRUE], programs |-> << [id |-> PyStr("p1")], [id |-> PyStr("p2")] >>],
     [ok |-> [i \in 1..4 |-> FALSE], programs |-> <<>>]}

\* the action types a request may name: those of execute_action, and one it
\* does not know
ActionTypes == {"turn_on", "turn_off", "get_status",
                "change_channel", "set_volume", "get_channels", "search_programs",
                "play_program", "play_playlist", "play_genre", "set_scene", "set_state",
                "play"}

\* the device types a request may name: those that can be registered, and one
\* that never is
RequestDeviceTypes == {"tv", "music_player", "lights", "thermostat"}

\* the params a direct action request may carry: none, every parameter with a
\* usable value (volume 0 included), every parameter present but None or empty
ParamsAllPresent ==
    [channel_id |-> PyStr("5"), volume |-> PyInt(0), program_id |-> PyStr("p1"),
     playlist_name |-> PyStr("repas"), genre |-> PyStr("jazz"),
     scene_name |-> PyStr("movie"), state |-> PyDict([on |-> TRUE]),
     category |-> PyStr("film")]

ParamsAllEmpty ==
    [channel_id |-> PyStr(""), volume |-> PyNone, program_id |-> PyInt(0),
     playlist_name |-> PyStr(""), genre |-> PyNone,
     scene_name |-> PyStr(""), state |-> PyDict(EmptyDict)]

ActionParams == {EmptyDict, ParamsAllPresent, ParamsAllEmpty}

\* execute_action, called directly
ExecuteActionCall(action_type, device_type, params, resp) ==
    LET done == Step(device_controllers, "", action_type, device_type, params, resp)
    IN  /\ last_call' = [op |-> "execute_action", action_type |-> action_type,
                         device_type |-> device_type, params |-> params]
        /\ steps' = <<done>>
        /\ results' = EmptyDict
        /\ returned' = done.result
        /\ UNCHANGED <<device_controllers, tasks>>
        /\ UNCHANGED <<engine_vars, clock_vars, generator_vars>>

(***************************************************************************)
(* API: the device requests as the event loop handles them.                *)
(*   /devices/action and /devices/scenario are "async def" handlers that   *)
(*   call the DeviceManager without awaiting anything: once the loop has   *)
(*   started one, no other handler runs until it returns.  Each controller *)
(*   capability called on the way is one exchange with the device          *)
(*   (requests.get/post/put without a timeout argument), seen here as two  *)
(*   steps: the call is sent, the device answers.                          *)
(***************************************************************************)
\* the requests received: direct actions (one without any controller call)
\* and scenarios
ServeRequests ==
    {[op |-> "execute_action", action_type |-> "turn_on", device_type |-> "tv",
      params |-> EmptyDict],
     [op |-> "execute_action", action_type |-> "set_volume", device_type |-> "music_player",
      params |-> ParamsAllPresent],
     [op |-> "execute_action", action_type |-> "set_scene", device_type |-> "tv",
      params |-> ParamsAllPresent],
     [op |-> "execute_scenario", scenario_name |-> "all_off", params |-> EmptyDict],
     [op |-> "execute_scenario", scenario_name |-> "movie_time", params |-> EmptyDict]}

\* what the devices answer to the calls of one request, when they answer
ServeEnvs == ActionScenarioEnvs

\* the DeviceManager call a handler makes for its request: the value it
\* returns, the local results and the execute_action calls made
RequestRun(controllers, request, env) ==
    IF request.op = "execute_scenario"
    THEN RunScenario(controllers, request.scenario_name, request.params, env)
    ELSE LET done == Step(controllers, "", request.action_type, request.device_type,
                          request.params, [ok |-> env.ok[1], list |-> env.programs])
         IN  [returned |-> done.result, results |-> EmptyDict, steps |-> <<done>>]

\* the controller calls of a run, in order
RunCalls(run) == Flatten([i \in 1..Len(run.steps) |-> run.steps[i].calls])

\* variant of LoopFree: handlers run on worker threads, any number at a time
LoopFree_ThreadPool(all_tasks) == TRUE

\* the event loop is free: no handler has started without having returned
LoopFree(all_tasks) ==
    \A r \in DOMAIN all_tasks : all_tasks[r].status \notin {"running", "waiting"}

\* the API receives a request: its handler is scheduled on the event loop.
\* What the handler will do once started is settled by the request, the
\* registered controllers and the devices' answers: it is worked out here.
ReceiveRequest(r, request, env) ==
    /\ tasks[r].status = "none"
    /\ \A q \in 1..(r - 1) : tasks[q].status # "none"
    /\ LET run == RequestRun(device_controllers, request, env)
       IN  tasks' = [tasks EXCEPT ![r] = [status |-> "pending",
                                          request |-> request,
                                          run |-> run,
                                          calls |-> RunCalls(run),
                                          pc |-> 1]]
    /\ UNCHANGED <<device_controllers, last_call, steps, results, returned>>
    /\ UNCHANGED <<engine_vars, clock_vars, generator_vars>>

\* the event loop starts the handler, which enters execute_action or
\* execute_scenario
StartHandler(r) ==
    /\ tasks[r].status = "pending"
    /\ LoopFree(tasks)
    /\ tasks' = [tasks EXCEPT ![r].status = "running"]
    /\ UNCHANGED <<device_controllers, last_call, steps, results, returned>>
    /\ UNCHANGED <<engine_vars, clock_vars, generator_vars>>

\* the handler reaches its next controller call: requests.<verb>(url) is sent
SendCall(r) ==
    /\ tasks[r].status = "running"
    /\ tasks[r].pc <= Len(tasks[r].calls)
    /\ tasks' = [tasks EXCEPT ![r].status = "waiting"]
    /\ UNCHANGED <<device_controllers, last_call, steps, results, returned>>
    /\ UNCHANGED <<engine_vars, clock_vars, generator_vars>>

\* the device answers (a status code, or a connection error the controller
\* catches): requests.<verb> returns and the handler goes on
DeviceAnswers(r) ==
    /\ tasks[r].status = "waiting"
    /\ tasks' = [tasks EXCEPT ![r].status = "running", ![r].pc = @ + 1]
    /\ UNCHANGED <<device_controllers, last_call, steps, results, returned>>
    /\ UNCHANGED <<engine_vars, clock_vars, generator_vars>>

\* execute_action or execute_scenario returns and the handler with it
ReturnResult(r) ==
    /\ tasks[r].status = "running"
    /\ tasks[r].pc > Len(tasks[r].calls)
    /\ tasks' = [tasks EXCEPT ![r] = [status |-> "done",
                                      request |-> tasks[r].request,
                                      response |-> tasks[r].run.returned]]
    /\ last_call' = tasks[r].request
    /\ steps' = tasks[r].run.steps
    /\ results' = tasks[r].run.results
    /\ returned' = tasks[r].run.returned
    /\ UNCHANGED device_controllers
    /\ UNCHANGED <<engine_vars, clock_vars, generator_vars>>

(***************************************************************************)
(* RecommendationEngine: the operations next to get_recommendations.       *)
(***************************************************************************)
\* the recommendation_id values process_feedback is called with: strings, and
\* None, the only value rec.get("id") can equal since no stored batch has an id
FeedbackIds == {PyStr("rec_1"), PyStr("manger"), PyStr(""), PyNone}

\* the feedback dicts
Feedbacks == {[accepted |-> TRUE], [accepted |-> FALSE], EmptyDict}

\* activity_data as handed to analyze_activity alone: complete, and without
\* its "confidence" key
AnalyzeInputs == {[activity |-> "lire", confidence |-> 75], [activity |-> "manger"]}

\* variant of FeedbackMatches: the most recent batch answers to any id
FeedbackMatches_Latest(history, recommendation_id) ==
    {i \in 1..Len(history) : i = Len(history)}

\* "for rec in self.recommendation_history: if rec.get('id') == recommendation_id":
\* the indices of the stored batches the loop would stop at
FeedbackMatches(history, recommendation_id) ==
    {i \in 1..Len(history) : DictGet(history[i], "id", PyNone) = recommendation_id}

\* process_feedback: the profile after the call (_adjust_weights_from_feedback
\* only logs)
FeedbackProfile(profile, history, recommendation_id, feedback) ==
    IF FeedbackMatches(history, recommendation_id) # {} /\ HasProfile(profile)
    THEN [profile EXCEPT !.feedback_history = DictPut(@, recommendation_id, feedback)]
    ELSE profile

\* process_feedback
ProcessFeedback(recommendation_id, feedback) ==
    /\ user_profile' = FeedbackProfile(user_profile, recommendation_history,
                                       recommendation_id, feedback)
    /\ UNCHANGED <<config, decision_rules, last_recommendations, recommendation_history>>
    /\ UNCHANGED <<device_vars, clock_vars, generator_vars>>

\* analyze_activity, called on its own
AnalyzeActivityCall(activity_data) ==
    /\ user_profile' = AnalyzeActivity(user_profile, activity_data).profile
    /\ UNCHANGED <<config, decision_rules, last_recommendations, recommendation_history>>
    /\ UNCHANGED <<device_vars, clock_vars, generator_vars>>

(***************************************************************************)
(* Specifications.                                                         *)
(***************************************************************************)
\* Spec: every operation of the engine, on short histories
GetRecommendations(activity_data, now) ==
    /\ Len(recommendation_history) < MaxHistory
    /\ GetRecommendationsCall(activity_data, now)

Init == EngineInit /\ DeviceIdle /\ ClockIdle /\ GeneratorInit

Next ==
    \/ \E user_id \in UserIds : LoadUserProfile(user_id)
    \/ \E activity_data \in Observations, now \in Clock :
           GetRecommendations(activity_data, now)

Spec == Init /\ [][Next]_vars

\* SpecDeep: longer histories, for the scoring against the stored batches.
\* The profile, if any, is loaded before the first call; fewer inputs.
DeepObservations == {[activity |-> "manger", confidence |-> 92],
                     [activity |-> "inactif", confidence |-> 60],
                     [activity |-> "inactif", confidence |-> 30]}

DeepClock == {[minute |-> 480, weekday |-> 0],      \* Monday 08:00
              [minute |-> 1380, weekday |-> 5]}     \* Saturday 23:00

DeepLoadUserProfile(user_id) ==
    /\ recommendation_history = <<>>
    /\ LoadUserProfile(user_id)

DeepGetRecommendations(activity_data, now) ==
    /\ Len(recommendation_history) < MaxDeepHistory
    /\ GetRecommendationsCall(activity_data, now)

DeepNext ==
    \/ \E user_id \in UserIds : DeepLoadUserProfile(user_id)
    \/ \E activity_data \in DeepObservations, now \in DeepClock :
           DeepGetRecommendations(activity_data, now)

SpecDeep == Init /\ [][DeepNext]_vars

\* SpecOps: the four public operations of the engine, in any order
OpsObservations == {[activity |-> "manger", confidence |-> 92],
                    [activity |-> "inactif", confidence |-> 30]}

OpsGetRecommendations(activity_data, now) ==
    /\ Len(recommendation_history) < MaxOpsHistory
    /\ GetRecommendationsCall(activity_data, now)

OpsAnalyzeActivity(activity_data) ==
    /\ HasProfile(user_profile) =>
           Len(user_profile.activity_history) < MaxActivityHistory
    /\ AnalyzeActivityCall(activity_data)

OpsNext ==
    \/ \E user_id \in UserIds : LoadUserProfile(user_id)
    \/ \E activity_data \in AnalyzeInputs : OpsAnalyzeActivity(activity_data)
    \/ \E activity_data \in OpsObservations, now \in Clock :
           OpsGetRecommendations(activity_data, now)
    \/ \E recommendation_id \in FeedbackIds, feedback \in Feedbacks :
           ProcessFeedback(recommendation_id, feedback)

SpecOps == Init /\ [][OpsNext]_vars

\* SpecDevice: the scenarios of the DeviceManager, for every registered set of
\* controllers, request params and device answers
DeviceNext ==
    \E scenario_name \in ScenarioNames, params \in ScenarioParams, env \in ScenarioEnvs :
        ExecuteScenario(scenario_name, params, env)

SpecDevice == DeviceInit /\ [][DeviceNext]_vars

\* SpecAction: direct execute_action requests for every action type, device
\* type and params, next to scenario requests with two sets of device answers
ActionNext ==
    \/ \E action_type \in ActionTypes, device_type \in RequestDeviceTypes,
          params \in ActionParams, resp \in Responses :
           ExecuteActionCall(action_type, device_type, params, resp)
    \/ \E scenario_name \in ScenarioNames, env \in ActionScenarioEnvs :
           ExecuteScenario(scenario_name, EmptyDict, env)

SpecAction == DeviceInit /\ [][ActionNext]_vars

\* SpecServe: the API serving device requests.  FairSpecServe: the same, where
\* a handler that can take its next step does take it; nothing makes a device
\* answer.
ServeNext ==
    \/ \E r \in 1..MaxRequests, request \in ServeRequests, env \in ServeEnvs :
           ReceiveRequest(r, request, env)
    \/ \E r \in 1..MaxRequests : StartHandler(r)
    \/ \E r \in 1..MaxRequests : SendCall(r)
    \/ \E r \in 1..MaxRequests : DeviceAnswers(r)
    \/ \E r \in 1..MaxRequests : ReturnResult(r)

SpecServe == DeviceInit /\ [][ServeNext]_vars

FairSpecServe ==
    /\ DeviceInit
    /\ [][ServeNext]_vars
    /\ \A r \in 1..MaxRequests :
           WF_vars(StartHandler(r)) /\ WF_vars(SendCall(r)) /\ WF_vars(ReturnResult(r))

(***************************************************************************)
(* Properties of the recommendation engine.                                *)
(***************************************************************************)
\* the candidate types of a stored batch, in order
BatchTypes(batch) == [i \in 1..Len(batch.recommendations) |-> batch.recommendations[i].type]

\* a batch has been stored
HasBatch == "recommendations" \in DOMAIN last_recommendations

\* the history the engine held when it built its k-th batch
HistoryBefore(k) == SubSeq(recommendation_history, 1, k - 1)

\* occurrences of rec_type among the candidates of the last 3 batches of history
OccurrencesInLast3(rec_type, history) ==
    LET recent == LastN(history, 3)
    IN  Count(Flatten([i \in 1..Len(recent) |-> BatchTypes(recent[i])]), rec_type)

\* rec_type is a candidate of each of the last 3 batches of history
InAllOfLast3(rec_type, history) ==
    /\ Len(history) >= 3
    /\ \A i \in (Len(history) - 2)..Len(history) : Contains(BatchTypes(history[i]), rec_type)

\* rec_type is a candidate of each of the last 3 batches of history, once in each
OnceInEachOfLast3(rec_type, history) ==
    /\ Len(history) >= 3
    /\ \A i \in (Len(history) - 2)..Len(history) : Count(BatchTypes(history[i]), rec_type) = 1

\* C1: a get_recommendations call whose confidence is strictly below the
\* threshold uses the activity "default" for the rule lookup, the context
\* adjustment and the scoring, whatever the input activity; at or above the
\* threshold it uses the input activity.
C1_LowConfidenceUsesDefault ==
    [][\A activity_data \in Observations, now \in Clock :
          GetRecommendationsCall(activity_data, now) =>
              LET used == IF activity_data.confidence < threshold_confidence
                          THEN "default" ELSE activity_data.activity
                  adjusted == AdjustForContext(RuleLookup(decision_rules, used),
                                               GetTimeContext(now), used)
                  types == IF HasProfile(user_profile)
                           THEN PersonalizeRecommendations(user_profile, adjusted)
                           ELSE adjusted
                  batch == last_recommendations'
              IN  /\ batch.activity = used
                  /\ BatchTypes(batch) = types
                  /\ \A i \in 1..Len(types) :
                         batch.recommendations[i].priority =
                             CalculatePriority(types[i], used, recommendation_history)
      ]_vars

\* the last call had input activity "manger" with a confidence below the
\* threshold, and its batch was built for "default"
C1_Witness ==
    /\ HasProfile(user_profile)
    /\ Len(user_profile.activity_history) > 0
    /\ LET seen == user_profile.activity_history[Len(user_profile.activity_history)]
       IN  seen.activity = "manger" /\ seen.confidence < threshold_confidence
    /\ HasBatch
    /\ last_recommendations.activity = "default"
    /\ BatchTypes(last_recommendations) # decision_rules["manger"]

\* C2: every priority stored in any batch of the history lies between 0.1 and 1.0.
C2_PriorityRange ==
    \A k \in 1..Len(recommendation_history) :
        \A i \in 1..Len(recommendation_history[k].recommendations) :
            LET priority == recommendation_history[k].recommendations[i].priority
            IN  1 <= priority /\ priority <= 10

\* the history holds a candidate scored at the ceiling 1.0 and a candidate whose
\* decay went below the floor and that was scored 0.1
C2_Witness ==
    /\ \E k \in 1..Len(recommendation_history) :
           \E i \in 1..Len(recommendation_history[k].recommendations) :
               LET c == recommendation_history[k].recommendations[i]
               IN  /\ c.priority = 10
                   /\ BasePriority(c.type)
                        + ActivityBoost(c.type, recommendation_history[k].activity) > 10
    /\ \E k \in 1..Len(recommendation_history) :
           \E i \in 1..Len(recommendation_history[k].recommendations) :
               LET c == recommendation_history[k].recommendations[i]
               IN  /\ c.priority = 1
                   /\ BasePriority(c.type) - OccurrencesInLast3(c.type, HistoryBefore(k)) < 1

C4_AdjustIdempotent ==
    [][\A activity_data \in Observations, now \in Clock :
          GetRecommendationsCall(activity_data, now) =>
              LET activity == last_recommendations'.activity
                  time_context == GetTimeContext(now)
                  once == AdjustForContext(RuleLookup(decision_rules, activity),
                                           time_context, activity)
              IN  AdjustForContext(once, time_context, activity) = once
      ]_vars

\* C5 as stated: when a profile preferring the variant is loaded and the
\* generic type is among the candidates, the personalized list holds no
\* generic type and the variant exactly once; without the preference the list
\* is unchanged.
C5_Substitution(exclusive) ==
    \A activity_data \in Observations, now \in Clock :
        GetRecommendationsCall(activity_data, now) =>
            LET activity == last_recommendations'.activity
                adjusted == AdjustForContext(RuleLookup(decision_rules, activity),
                                             GetTimeContext(now), activity)
                personalized == BatchTypes(last_recommendations')
                Swapped(generic, variant) ==
                    (/\ Contains(adjusted, generic)
                     /\ exclusive =>
                            Count(adjusted, generic) = 1 /\ ~Contains(adjusted, variant))
                    => (/\ ~Contains(personalized, generic)
                        /\ Count(personalized, variant) = 1)
            IN  IF HasProfile(user_profile)
                THEN /\ Contains(user_profile.preferences.tv_programs, "documentaires")
                        => Swapped("recommander_programme", "recommander_documentaire")
                     /\ Contains(user_profile.preferences.music_genres, "classique")
                        => Swapped("diffuser_musique", "diffuser_musique_classique")
                ELSE personalized = adjusted

C5_SubstitutionExclusive == [][C5_Substitution(FALSE)]_vars

\* C5 amended: when a profile preferring the variant is loaded and the generic
\* type occurs exactly once among the candidates and the variant does not
\* occur among them, the personalized list holds no generic type and the
\* variant exactly once; without a loaded profile the list is unchanged.
C5_SubstitutionOfSingleGeneric == [][C5_Substitution(TRUE)]_vars

\* a loaded profile, and a last batch built from a rule list that holds
\* diffuser_musique once and no variant: the batch holds the variant
C5_Witness ==
    /\ HasProfile(user_profile)
    /\ Len(user_profile.activity_history) > 0
    /\ HasBatch
    /\ last_recommendations.activity = "manger"
    /\ Count(decision_rules["manger"], "diffuser_musique") = 1
    /\ ~Contains(decision_rules["manger"], "diffuser_musique_classique")
    /\ Count(BatchTypes(last_recommendations), "diffuser_musique_classique") = 1

C12_BatchRanked ==
    HasBatch =>
        \A i, j \in 1..Len(last_recommendations.recommendations) :
            i < j => last_recommendations.recommendations[i].priority >=
                     last_recommendations.recommendations[j].priority

(***************************************************************************)
(* Properties of the DeviceManager.                                        *)
(***************************************************************************)
\* the last call was execute_scenario(name, ...)
RanScenario(name) ==
    last_call.op = "execute_scenario" /\ last_call.scenario_name = name

\* the steps of the last call that hold the label
StepsLabelled(label) == {i \in 1..Len(steps) : steps[i].label = label}

\* the controller calls the last call issued, in order
ControllerCalls == Flatten([i \in 1..Len(steps) |-> steps[i].calls])

\* the program search of the last call was answered with an empty list
SearchReturnedNothing ==
    \E i \in 1..Len(steps) :
        /\ steps[i].action_type = "search_programs"
        /\ "programs" \in DOMAIN steps[i].result
        /\ steps[i].result.programs = <<>>

\* C6: in movie_time, when the program search returns an empty list, the play
\* step is absent from the returned per-step map and success is the
\* conjunction of exactly the lights, TV-on and volume step results.
C6_MovieTimeSkipsPlay ==
    (RanScenario("movie_time") /\ SearchReturnedNothing) =>
        /\ "results" \in DOMAIN returned
        /\ DOMAIN returned.results = {"lights", "tv", "volume"}
        /\ StepsLabelled("program") = {}
        /\ \A label \in {"lights", "tv", "volume"} :
               /\ Cardinality(StepsLabelled(label)) = 1
               /\ \A i \in StepsLabelled(label) : returned.results[label] = steps[i].result
        /\ returned.success =
               (\A i \in 1..Len(steps) : steps[i].label # "" => steps[i].result.success)

\* movie_time ran with a registered TV whose search found nothing; the three
\* other steps succeeded and so did the scenario
C6_Witness ==
    /\ RanScenario("movie_time")
    /\ SearchReturnedNothing
    /\ last_call.params = [category |-> PyStr("documentaire"), volume |-> PyInt(35)]
    /\ \E i \in 1..Len(ControllerCalls) :
           /\ ControllerCalls[i].capability = "search_programs"
           /\ ControllerCalls[i].arg.category = PyStr("documentaire")
    /\ returned.success
    /\ "program" \notin DOMAIN returned.results

\* C7: all_off issues exactly one turn_off per registered type, returns one
\* entry per registered type, and succeeds iff every turn-off succeeded.
C7_AllOff ==
    RanScenario("all_off") =>
        /\ Len(steps) = Len(device_controllers)
        /\ ControllerCalls = [i \in 1..Len(device_controllers) |->
                                 [device |-> device_controllers[i],
                                  capability |-> "turn_off", arg |-> PyNone]]
        /\ "results" \in DOMAIN returned
        /\ DOMAIN returned.results =
               {device_controllers[i] : i \in 1..Len(device_controllers)}
        /\ \A i \in 1..Len(steps) :
               returned.results[device_controllers[i]] = steps[i].result
        /\ returned.success = (\A i \in 1..Len(steps) : steps[i].result.success)

\* all_off ran on three registered types; two turn-offs succeeded and one
\* failed: success is false and the map has 3 entries
C7_Witness ==
    /\ RanScenario("all_off")
    /\ Len(device_controllers) = 3
    /\ Cardinality({i \in 1..Len(steps) : steps[i].result.success}) = 2
    /\ Cardinality(DOMAIN returned.results) = 3
    /\ ~returned.success

\* C9: for movie_time, dinner_music, relax_mode and all_off the returned
\* success flag is the conjunction of the success of exactly the steps that
\* were executed.
C9_SuccessIsConjunctionOfExecutedSteps ==
    (\E name \in {"movie_time", "dinner_music", "relax_mode", "all_off"} : RanScenario(name)) =>
        returned.success =
            (\A i \in 1..Len(steps) : DictGet(steps[i].result, "success", FALSE))

\* C10: the map returned by execute_scenario holds the outcome of every step
\* that was executed (and stored under a label) before the return.
C10_ReturnedMapHoldsEveryStep ==
    last_call.op = "execute_scenario" =>
        \A i \in 1..Len(steps) :
            steps[i].label # "" =>
                /\ "results" \in DOMAIN returned
                /\ steps[i].label \in DOMAIN returned.results
                /\ returned.results[steps[i].label] = steps[i].result

\* the last call was a direct execute_action
RanAction == last_call.op = "execute_action"

\* the device type named by the last call is registered
Registered(device_type) == Contains(device_controllers, device_type)

\* the actions execute_action knows for a device type, next to turn_on,
\* turn_off and get_status
OwnActions(device_type) ==
    CASE device_type = "tv" -> {"change_channel", "set_volume", "get_channels",
                                "search_programs", "play_program"}
      [] device_type = "music_player" -> {"play_playlist", "set_volume", "play_genre"}
      [] device_type = "lights" -> {"set_scene", "set_state"}
      [] OTHER -> {}

\* C13: execute_scenario with a name other than movie_time, dinner_music,
\* relax_mode or all_off returns success=false with an error, makes no
\* execute_action call and invokes no controller.
C13_UnknownScenario ==
    (/\ last_call.op = "execute_scenario"
     /\ last_call.scenario_name \notin {"movie_time", "dinner_music", "relax_mode", "all_off"}) =>
        /\ returned.success = FALSE
        /\ "error" \in DOMAIN returned
        /\ steps = <<>>
        /\ ControllerCalls = <<>>

\* an unknown name was requested from a manager with three controllers
C13_Witness ==
    /\ RanScenario("Movie_Time")
    /\ Len(device_controllers) = 3
    /\ "error" \in DOMAIN returned
    /\ steps = <<>>

\* C14: execute_action on a registered device type with an action that is
\* neither turn_on, turn_off, get_status nor one of that type's own actions
\* returns success=false with the unsupported-action error (a result, not an
\* exception) and invokes no capability of the controller.
C14_UnsupportedAction ==
    (/\ RanAction
     /\ Registered(last_call.device_type)
     /\ last_call.action_type \notin
            {"turn_on", "turn_off", "get_status"} \cup OwnActions(last_call.device_type)) =>
        /\ returned = [success |-> FALSE, error |-> "Action non prise en charge"]
        /\ ControllerCalls = <<>>

\* set_scene was requested on a registered tv, with every parameter present
C14_Witness ==
    /\ RanAction
    /\ last_call.action_type = "set_scene"
    /\ last_call.device_type = "tv"
    /\ Registered("tv")
    /\ last_call.params = ParamsAllPresent
    /\ ~returned.success

\* the parameterized actions of a device type: the params key each requires
RequiredParam(device_type, action_type) ==
    CASE device_type = "tv" /\ action_type = "change_channel" -> "channel_id"
      [] device_type = "tv" /\ action_type = "set_volume" -> "volume"
      [] device_type = "tv" /\ action_type = "play_program" -> "program_id"
      [] device_type = "music_player" /\ action_type = "play_playlist" -> "playlist_name"
      [] device_type = "music_player" /\ action_type = "set_volume" -> "volume"
      [] device_type = "music_player" /\ action_type = "play_genre" -> "genre"
      [] device_type = "lights" /\ action_type = "set_scene" -> "scene_name"
      [] device_type = "lights" /\ action_type = "set_state" -> "state"
      [] OTHER -> ""

\* the controller capability behind an action type
CapabilityOf(action_type) ==
    IF action_type = "set_state" THEN "set_all_lights" ELSE action_type

\* the last call was a parameterized action on a registered device type
RanParameterized ==
    /\ RanAction
    /\ Registered(last_call.device_type)
    /\ RequiredParam(last_call.device_type, last_call.action_type) # ""

\* the value the last call carried for its required parameter (None when missing)
GivenParam ==
    DictGet(last_call.params,
            RequiredParam(last_call.device_type, last_call.action_type), PyNone)

\* the last call was refused without calling the controller
Refused ==
    /\ returned.success = FALSE
    /\ "error" \in DOMAIN returned
    /\ ControllerCalls = <<>>

\* the last call invoked its capability exactly once, with the given parameter
InvokedOnceWithParam ==
    ControllerCalls = << [device |-> last_call.device_type,
                          capability |-> CapabilityOf(last_call.action_type),
                          arg |-> GivenParam] >>

\* C15 as stated: for every parameterized action, a missing required parameter
\* (absent or None) gives success=false with an error and no capability call,
\* and a present one gives exactly one capability call with it.
C15_ParamPresentIsInvoked ==
    RanParameterized =>
        IF GivenParam = PyNone THEN Refused ELSE InvokedOnceWithParam

\* C15, amended: the action is refused without a capability call when the
\* required parameter is absent, None or - for every parameter but volume -
\* empty ("", 0, {}); otherwise the capability is invoked exactly once with it.
C15_ParamValidation ==
    RanParameterized =>
        IF \/ GivenParam = PyNone
           \/ /\ RequiredParam(last_call.device_type, last_call.action_type) # "volume"
              /\ ~Truthy(GivenParam)
        THEN Refused
        ELSE InvokedOnceWithParam

\* set_volume was requested on a registered music player with volume 0, and
\* the player was called once with 0
C15_Witness ==
    /\ RanParameterized
    /\ last_call.action_type = "set_volume"
    /\ last_call.device_type = "music_player"
    /\ GivenParam = PyInt(0)
    /\ InvokedOnceWithParam
    /\ returned.success

\* C16: execute_action for a device type with no registered controller returns
\* success=false with an error for every action type, without calling any
\* controller and without a second attempt; and no execute_action or
\* execute_scenario call changes the set of registered controllers.
C16_UnregisteredDevice ==
    [][/\ device_controllers' = device_controllers
       /\ ((RanAction /\ ~Registered(last_call.device_type)) =>
              /\ Refused
              /\ returned.error = "Appareil non pris en charge"
              /\ Len(steps) = 1)'
      ]_vars

\* play_genre, with its parameter, was requested for the music player of a
\* manager that has only a tv and lights, and was refused
C16_Witness ==
    /\ RanAction
    /\ last_call.device_type = "music_player"
    /\ last_call.action_type = "play_genre"
    /\ last_call.params = ParamsAllPresent
    /\ device_controllers = <<"tv", "lights">>
    /\ Refused

\* the execute_action calls of the last call, in order, as
\* <<device type, action type, params>>
StepCalls == [i \in 1..Len(steps) |->
                 <<steps[i].device_type, steps[i].action_type, steps[i].params>>]

\* the program list the search step of the last call returned (empty when the
\* search was refused)
SearchedPrograms ==
    IF Len(steps) >= 3 /\ steps[3].action_type = "search_programs"
    THEN DictGet(steps[3].result, "programs", <<>>)
    ELSE <<>>

\* C17: in movie_time the device actions are, in this order: lights
\* set_scene(movie), tv turn_on, tv search_programs(category, default film),
\* tv play_program, tv set_volume(volume, default 50); play_program is issued
\* iff the search returned a non-empty list, then with the id of the first
\* program returned, and set_volume is always issued, last.
C17_MovieTimeOrder ==
    RanScenario("movie_time") =>
        LET opening ==
                << <<"lights", "set_scene", [scene_name |-> PyStr("movie")]>>,
                   <<"tv", "turn_on", EmptyDict>>,
                   <<"tv", "search_programs",
                     [category |-> DictGet(last_call.params, "category", PyStr("film"))]>> >>
            closing ==
                <<"tv", "set_volume",
                  [volume |-> DictGet(last_call.params, "volume", PyInt(50))]>>
        IN  /\ Len(steps) >= 3
            /\ SubSeq(StepCalls, 1, 3) = opening
            /\ IF SearchedPrograms # <<>>
               THEN /\ Len(steps) = 5
                    /\ StepCalls[4][1] = "tv"
                    /\ StepCalls[4][2] = "play_program"
                    /\ "id" \in DOMAIN SearchedPrograms[1]
                    /\ StepCalls[4][3] = [program_id |-> SearchedPrograms[1]["id"]]
                    /\ StepCalls[5] = closing
               ELSE /\ Len(steps) = 4
                    /\ StepCalls[4] = closing

\* the labels the steps of the last call are stored under, in order
StepLabels == [i \in 1..Len(steps) |-> steps[i].label]

\* C18: in dinner_music and relax_mode, whatever the outcome of each step, the
\* four steps (light scene, music turn_on, play playlist or genre, set volume)
\* are each attempted exactly once, in that order, none is retried, and the
\* per-step map has exactly 4 entries, one per step.
C18_FourStepsAlways ==
    (RanScenario("dinner_music") \/ RanScenario("relax_mode")) =>
        LET dinner == last_call.scenario_name = "dinner_music"
            expected ==
                << <<"lights", "set_scene",
                     [scene_name |-> PyStr(IF dinner THEN "dinner" ELSE "relax")]>>,
                   <<"music_player", "turn_on", EmptyDict>>,
                   IF dinner
                   THEN <<"music_player", "play_playlist",
                          [playlist_name |-> DictGet(last_call.params, "playlist", PyStr("repas"))]>>
                   ELSE <<"music_player", "play_genre",
                          [genre |-> DictGet(last_call.params, "genre", PyStr("classique"))]>>,
                   <<"music_player", "set_volume",
                     [volume |-> DictGet(last_call.params, "volume",
                                         PyInt(IF dinner THEN 30 ELSE 20))]>> >>
            labels == <<"lights", "music", IF dinner THEN "playlist" ELSE "genre", "volume">>
        IN  /\ StepCalls = expected
            /\ StepLabels = labels
            /\ \A i \in 1..Len(steps) : Len(steps[i].calls) <= 1
            /\ "results" \in DOMAIN returned
            /\ Cardinality(DOMAIN returned.results) = 4
            /\ \A i \in 1..4 : returned.results[labels[i]] = steps[i].result

\* relax_mode ran with every controller registered: the music player failed to
\* turn on, the three other steps went through, each with one controller call
C18_Witness ==
    /\ RanScenario("relax_mode")
    /\ Len(steps) = 4
    /\ ~steps[2].result.success
    /\ \A i \in {1, 3, 4} : steps[i].result.success
    /\ Len(ControllerCalls) = 4
    /\ ~returned.success

(***************************************************************************)
(* Properties of the API serving device requests.                          *)
(***************************************************************************)
\* the handler of request r is inside execute_action or execute_scenario
InHandler(r) == tasks[r].status \in {"running", "waiting"}

\* the requests whose handler has a controller call in flight on device_type
InFlight(device_type) ==
    {r \in 1..MaxRequests :
        /\ tasks[r].status = "waiting"
        /\ tasks[r].calls[tasks[r].pc].device = device_type}

\* C19: every execute_action and execute_scenario call eventually returns a
\* result, also when a device never answers a call made on the way.
C19_EveryCallReturns ==
    \A r \in 1..MaxRequests : InHandler(r) ~> (tasks[r].status = "done")

\* C20: across the requests handled concurrently on the shared DeviceManager,
\* at most one action is in flight per device type at any time.
C20_OneInFlightPerDevice ==
    \A device_type \in RequestDeviceTypes : Cardinality(InFlight(device_type)) <= 1

\* two requests that act on the tv have been received; the first has a call
\* in flight on the tv while the second waits for the event loop
C20_Witness ==
    /\ InFlight("tv") = {1}
    /\ tasks[2].status = "pending"
    /\ tasks[2].request = [op |-> "execute_action", action_type |-> "turn_on",
                           device_type |-> "tv", params |-> EmptyDict]
    /\ Contains(device_controllers, "tv")

(***************************************************************************)
(* The API over the shared RecommendationEngine: POST /recommendations     *)
(* and the background task of POST /angel-capture both call                *)
(* get_recommendations on the event loop of the one uvicorn process.       *)
(***************************************************************************)
\* the requests explored: /recommendations with and without a user id, and
\* /angel-capture, whose background task never loads a profile
ObservationRequests ==
    {[op |-> "recommendations", user_id |-> "u1",
      activity_data |-> [activity |-> "manger", confidence |-> 92],
      now |-> [minute |-> 480, weekday |-> 0]],
     [op |-> "recommendations", user_id |-> "",
      activity_data |-> [activity |-> "manger", confidence |-> 92],
      now |-> [minute |-> 480, weekday |-> 0]],
     [op |-> "recommendations", user_id |-> "",
      activity_data |-> [activity |-> "inactif", confidence |-> 30],
      now |-> [minute |-> 480, weekday |-> 0]],
     [op |-> "angel_capture", user_id |-> "",
      activity_data |-> [activity |-> "manger", confidence |-> 92],
      now |-> [minute |-> 480, weekday |-> 0]]}

\* "if request.user_id" in the /recommendations handler; process_activity_data
\* has no such step
LoadsProfile(request) == request.op = "recommendations" /\ request.user_id # ""

\* a request arrives: its handler (for /angel-capture, its background task)
\* is scheduled on the event loop
ReceiveObservation(r, request) ==
    /\ tasks[r].status = "none"
    /\ \A q \in 1..(r - 1) : tasks[q].status # "none"
    /\ tasks' = [tasks EXCEPT ![r] = [status |-> "pending", request |-> request]]
    /\ UNCHANGED <<device_controllers, last_call, steps, results, returned>>
    /\ UNCHANGED <<engine_vars, clock_vars, generator_vars>>

\* variant of StartRecommend: the handler starts on a worker thread, whether
\* or not another one is running
StartRecommend_ThreadPool(r) ==
    /\ tasks[r].status = "pending"
    /\ tasks' = [tasks EXCEPT ![r] = [status |-> "running",
                                      request |-> tasks[r].request,
                                      pc |-> "load"]]
    /\ UNCHANGED <<device_controllers, last_call, steps, results, returned>>
    /\ UNCHANGED <<engine_vars, clock_vars, generator_vars>>

\* the event loop starts the coroutine; it runs to its first await, which
\* comes after get_recommendations has returned
StartRecommend(r) ==
    /\ tasks[r].status = "pending"
    /\ LoopFree(tasks)
    /\ tasks' = [tasks EXCEPT ![r] = [status |-> "running",
                                      request |-> tasks[r].request,
                                      pc |-> "load"]]
    /\ UNCHANGED <<device_controllers, last_call, steps, results, returned>>
    /\ UNCHANGED <<engine_vars, clock_vars, generator_vars>>

\* "if request.user_id: recommendation_engine.load_user_profile(...)"
LoadProfileStep(r) ==
    /\ tasks[r].status = "running"
    /\ tasks[r].pc = "load"
    /\ user_profile' = IF LoadsProfile(tasks[r].request)
                       THEN NewProfile(tasks[r].request.user_id)
                       ELSE user_profile
    /\ tasks' = [tasks EXCEPT ![r].pc = "build"]
    /\ UNCHANGED <<config, decision_rules, last_recommendations, recommendation_history>>
    /\ UNCHANGED <<device_controllers, last_call, steps, results, returned>>
    /\ UNCHANGED <<clock_vars, generator_vars>>

\* get_recommendations up to the list "recommendations": the activity is
\* analysed (and recorded in the loaded profile) and the candidates are
\* detailed, their priorities read from the history as it is now
BuildStep(r) ==
    /\ tasks[r].status = "running"
    /\ tasks[r].pc = "build"
    /\ LET built == BuildBatch(config, decision_rules, user_profile,
                               recommendation_history, tasks[r].request.activity_data,
                               tasks[r].request.now)
       IN  /\ user_profile' = built.profile
           /\ tasks' = [tasks EXCEPT ![r] = [status |-> "running",
                                             request |-> tasks[r].request,
                                             pc |-> "store",
                                             batch |-> built.batch,
                                             seen |-> Len(recommendation_history)]]
    /\ UNCHANGED <<config, decision_rules, last_recommendations, recommendation_history>>
    /\ UNCHANGED <<device_controllers, last_call, steps, results, returned>>
    /\ UNCHANGED <<clock_vars, generator_vars>>

\* the end of get_recommendations: the batch is stored, appended to the
\* history and returned
StoreStep(r) ==
    /\ tasks[r].status = "running"
    /\ tasks[r].pc = "store"
    /\ last_recommendations' = tasks[r].batch
    /\ recommendation_history' = Append(recommendation_history, tasks[r].batch)
    /\ tasks' = [tasks EXCEPT ![r] = [status |-> "done",
                                      request |-> tasks[r].request,
                                      response |-> tasks[r].batch]]
    /\ UNCHANGED <<config, decision_rules, user_profile>>
    /\ UNCHANGED <<device_controllers, last_call, steps, results, returned>>
    /\ UNCHANGED <<clock_vars, generator_vars>>

RecommendNext ==
    \/ \E r \in 1..MaxRequests, request \in ObservationRequests :
          ReceiveObservation(r, request)
    \/ \E r \in 1..MaxRequests : StartRecommend(r)
    \/ \E r \in 1..MaxRequests : LoadProfileStep(r)
    \/ \E r \in 1..MaxRequests : BuildStep(r)
    \/ \E r \in 1..MaxRequests : StoreStep(r)

SpecRecommend == Init /\ [][RecommendNext]_vars

\* the handler of a request run alone, from the engine state given: the
\* engine state after it and the batch it returns
HandleObservation(cfg, rules, profile, history, request) ==
    LET loaded == IF LoadsProfile(request) THEN NewProfile(request.user_id) ELSE profile
        built == BuildBatch(cfg, rules, loaded, history, request.activity_data, request.now)
    IN  [profile |-> built.profile,
         history |-> Append(history, built.batch),
         response |-> built.batch]

RECURSIVE AfterSerial(_)
\* the engine after the handlers of the requests in "order" ran one after
\* the other on a fresh engine
AfterSerial(order) ==
    IF order = <<>>
    THEN [profile |-> NoProfile, history |-> <<>>]
    ELSE LET before == AfterSerial(SubSeq(order, 1, Len(order) - 1))
             handled == HandleObservation(config, decision_rules, before.profile,
                                          before.history, tasks[order[Len(order)]].request)
         IN  [profile |-> handled.profile, history |-> handled.history]

\* the requests whose handler has returned
Answered == {r \in 1..MaxRequests : tasks[r].status = "done"}

\* the orders in which the requests of a set can be served
Orders(requests) ==
    {order \in [1..Cardinality(requests) -> requests] :
        \A i, j \in DOMAIN order : order[i] = order[j] => i = j}

\* C21: get_recommendations calls made concurrently, by API requests and by
\* /angel-capture background tasks, are serialised: no call's append falls
\* between another call's read of the history and its own append, and the
\* batches returned and the history are those of the calls run one after the
\* other in some order.
C21_CallsSerialised ==
    /\ \A r \in 1..MaxRequests :
          (tasks[r].status = "running" /\ tasks[r].pc = "store")
              => Len(recommendation_history) = tasks[r].seen
    /\ \E order \in Orders(Answered) :
          /\ recommendation_history = AfterSerial(order).history
          /\ \A i \in DOMAIN order : tasks[order[i]].response = recommendation_history[i]

\* an API request and a background task have both returned, the background
\* task first, and the API request's batch shows the decay of the first
C21_Witness ==
    /\ tasks[1].status = "done" /\ tasks[2].status = "done"
    /\ tasks[1].request.op = "recommendations"
    /\ tasks[2].request.op = "angel_capture"
    /\ Len(recommendation_history) = 2
    /\ recommendation_history[1] = tasks[2].response
    /\ recommendation_history[2] = tasks[1].response
    /\ recommendation_history[2].recommendations[1].priority
           < recommendation_history[1].recommendations[1].priority

\* C22: the profile is not ambient.  When get_recommendations runs for a
\* request that carries no user id, the batch is the one built without a
\* profile and no profile's activity history grows, whatever profile an
\* earlier request loaded.
C22_ProfileNotAmbient ==
    [][\A r \in 1..MaxRequests :
          (BuildStep(r) /\ ~LoadsProfile(tasks[r].request))
              => /\ user_profile' = user_profile
                 /\ tasks'[r].batch =
                        BuildBatch(config, decision_rules, NoProfile,
                                   recommendation_history,
                                   tasks[r].request.activity_data,
                                   tasks[r].request.now).batch]_vars

(***************************************************************************)
(* RecommendationEngine: reloading a profile, and observations whose       *)
(* fields are missing or hold something else than a name and a number.     *)
(***************************************************************************)
\* C23: a profile is never destroyed.  load_user_profile for the id of the
\* loaded profile returns a profile that still holds every activity_history
\* entry recorded before: the activity history of a user never shrinks.
C23_ReloadKeepsHistory ==
    [][\A user_id \in UserIds :
          (HasProfile(user_profile) /\ LoadUserProfile(user_id))
              => (user_profile.id = user_id
                    => /\ Len(user_profile'.activity_history)
                              >= Len(user_profile.activity_history)
                       /\ SubSeq(user_profile'.activity_history, 1,
                                 Len(user_profile.activity_history))
                              = user_profile.activity_history)]_vars

\* activity_data as a caller can hand it to get_recommendations, its values
\* Python values (numbers in hundredths): complete and valid; without one or
\* both keys; with an activity that names nothing; with a confidence that is
\* None or a string
RawObservations ==
    {[activity |-> PyStr("manger"), confidence |-> PyInt(92)],
     EmptyDict,
     [activity |-> PyStr("manger")],
     [confidence |-> PyInt(92)],
     [activity |-> PyStr(""), confidence |-> PyInt(92)],
     [activity |-> PyStr("manger"), confidence |-> PyNone],
     [activity |-> PyStr("manger"), confidence |-> PyStr("high")]}

\* activity_data.get("activity", "inconnu"), activity_data.get("confidence", 0.0)
RawActivity(activity_data) == DictGet(activity_data, "activity", PyStr("inconnu"))
RawConfidence(activity_data) == DictGet(activity_data, "confidence", PyInt(0))

\* "confidence < self.threshold_confidence" is defined for numbers; for None
\* and for a string Python raises TypeError
Comparable(v) == v.kind = "int"

\* get_recommendations on such an observation.  When the comparison raises,
\* analyze_activity has already recorded the observation in the loaded
\* profile and nothing else of the call takes place.  (The entry recorded
\* then keeps the value that is not a number under a field of its own, the
\* field "confidence" holding numbers only.)
RawGetRecommendations(activity_data, now) ==
    LET activity == RawActivity(activity_data)
        confidence == RawConfidence(activity_data)
    IN  IF Comparable(confidence)
        THEN GetRecommendationsCall([activity |-> activity.val,
                                     confidence |-> confidence.val], now)
        ELSE /\ user_profile' =
                    IF HasProfile(user_profile)
                    THEN [user_profile EXCEPT !.activity_history =
                             Append(@, [activity |-> activity.val,
                                        invalid_confidence |-> confidence])]
                    ELSE user_profile
             /\ UNCHANGED <<config, decision_rules, last_recommendations,
                            recommendation_history>>
             /\ UNCHANGED <<device_vars, clock_vars, generator_vars>>

RawGetRecommendationsCall(activity_data, now) ==
    /\ Len(recommendation_history) < MaxOpsHistory
    /\ HasProfile(user_profile) =>
           Len(user_profile.activity_history) < MaxActivityHistory
    /\ RawGetRecommendations(activity_data, now)

RawNext ==
    \/ \E user_id \in UserIds : LoadUserProfile(user_id)
    \/ \E activity_data \in RawObservations, now \in Clock :
           RawGetRecommendationsCall(activity_data, now)

SpecRaw == Init /\ [][RawNext]_vars

\* the observations with a field missing or invalid
Malformed == RawObservations \ {[activity |-> PyStr("manger"), confidence |-> PyInt(92)]}

\* C24: get_recommendations never raises for malformed input.  For an
\* observation whose activity or confidence is missing or invalid, the call
\* appends exactly one batch to the history, and its recommendations are
\* those built from the "default" entry of the rule table.
C24_MalformedDegrades ==
    [][\A activity_data \in Malformed, now \in Clock :
          RawGetRecommendationsCall(activity_data, now)
              => /\ Len(recommendation_history') = Len(recommendation_history) + 1
                 /\ last_recommendations' =
                        recommendation_history'[Len(recommendation_history')]
                 /\ last_recommendations'.recommendations =
                        BuildBatch(config, decision_rules, user_profile,
                                   recommendation_history,
                                   [activity |-> "default", confidence |-> 100],
                                   now).batch.recommendations]_vars

\* the recommendation ids that are strings
StringIds == {recommendation_id \in FeedbackIds : recommendation_id.kind = "str"}

\* C25: stored batches carry no "id".  process_feedback with a string id,
\* after any sequence of get_recommendations calls, matches no batch (so the
\* weight adjustment is never invoked) and leaves the feedback history, the
\* recommendation history and every other field of the engine unchanged.
C25_StringIdMatchesNothing ==
    [][\A recommendation_id \in StringIds, feedback \in Feedbacks :
          ProcessFeedback(recommendation_id, feedback)
              => /\ FeedbackMatches(recommendation_history, recommendation_id) = {}
                 /\ UNCHANGED engine_vars]_vars

\* batches are stored and a profile is loaded whose feedback history holds
\* the feedback given for None, the one id that finds a batch, and nothing
\* under a string id
C25_Witness ==
    /\ Len(recommendation_history) = MaxOpsHistory
    /\ HasProfile(user_profile)
    /\ DOMAIN user_profile.feedback_history = {PyNone}

(***************************************************************************)
(* RecommendationEngine: the rule table, the night rule, the clock and the  *)
(* priority formula.                                                       *)
(***************************************************************************)
\* C26: the base list of a call is the rule table's entry for the resolved
\* activity when the table has one, and the "default" entry when it has
\* none; when the activity has an entry of its own, the "default" entry plays
\* no role in the batch.
C26_RuleTableFallback ==
    [][\A activity_data \in Observations, now \in Clock :
          GetRecommendationsCall(activity_data, now) =>
              LET activity == last_recommendations'.activity
                  base == IF activity \in DOMAIN decision_rules
                          THEN decision_rules[activity]
                          ELSE decision_rules["default"]
                  adjusted == AdjustForContext(base, GetTimeContext(now), activity)
                  expected == IF HasProfile(user_profile)
                              THEN PersonalizeRecommendations(user_profile, adjusted)
                              ELSE adjusted
              IN  /\ BatchTypes(last_recommendations') = expected
                  /\ (activity \in DOMAIN decision_rules /\ activity # "default")
                        => last_recommendations' =
                              BuildBatch(config,
                                         [decision_rules EXCEPT
                                             !["default"] = <<"appeler_proche">>],
                                         user_profile, recommendation_history,
                                         activity_data, now).batch
      ]_vars

\* under a rule table without an entry for "inactif", one batch was built for
\* "inactif" from the default entry and one for "manger" from its own entry
C26_Witness ==
    /\ "inactif" \notin DOMAIN decision_rules
    /\ Len(recommendation_history) >= 2
    /\ recommendation_history[1].activity = "inactif"
    /\ BatchTypes(recommendation_history[1])[1] = decision_rules["default"][1]
    /\ recommendation_history[2].activity = "manger"
    /\ BatchTypes(recommendation_history[2])[1] = decision_rules["manger"][1]

\* C27: at night, for an activity other than "manger", the list produced by
\* _adjust_for_context holds no diffuser_musique, whatever the base list; for
\* "manger" at night and at any other time of day no diffuser_musique is
\* removed.
C27_NoMusicAtNight ==
    [][\A activity_data \in Observations, now \in Clock :
          GetRecommendationsCall(activity_data, now) =>
              LET activity == last_recommendations'.activity
                  time_context == GetTimeContext(now)
                  base == RuleLookup(decision_rules, activity)
                  adjusted == AdjustForContext(base, time_context, activity)
              IN  IF time_context.time_of_day = "night" /\ activity # "manger"
                  THEN ~Contains(adjusted, "diffuser_musique")
                  ELSE Count(adjusted, "diffuser_musique")
                           = Count(base, "diffuser_musique")
      ]_vars

\* C29: every candidate of every stored batch has priority
\* min(1, max(0.1, base - 0.1 * count) + boost), in tenths, where count is the
\* number of occurrences of its type among the candidates of the at most 3
\* batches stored last before the call, and boost is 0.2 for a music type
\* under "manger", 0.3 for raconter_histoire and engager_conversation under
\* "inactif", and 0 otherwise.
C29_PriorityFormula ==
    \A k \in 1..Len(recommendation_history) :
        \A i \in 1..Len(recommendation_history[k].recommendations) :
            LET c == recommendation_history[k].recommendations[i]
                activity == recommendation_history[k].activity
                count == OccurrencesInLast3(c.type, HistoryBefore(k))
                boost == IF activity = "manger"
                            /\ c.type \in {"diffuser_musique", "diffuser_musique_classique"}
                         THEN 2
                         ELSE IF activity = "inactif"
                                 /\ c.type \in {"raconter_histoire", "engager_conversation"}
                         THEN 3
                         ELSE 0
            IN  c.priority = Min(10, Max(1, BasePriority(c.type) - count) + boost)

\* a fifth batch holds engager_conversation under "inactif": the type was
\* also a candidate of the first batch, which no longer counts, and of some
\* of the three batches before the fifth, which do
C29_Witness ==
    /\ Len(recommendation_history) >= 5
    /\ recommendation_history[5].activity = "inactif"
    /\ Contains(BatchTypes(recommendation_history[5]), "engager_conversation")
    /\ Contains(BatchTypes(recommendation_history[1]), "engager_conversation")
    /\ OccurrencesInLast3("engager_conversation", HistoryBefore(5)) \in {1, 2}

(***************************************************************************)
(* get_time_context on its own, around the boundaries of the times of day   *)
(***************************************************************************)
\* the minutes of the day explored: each boundary, the minute before it and
\* the minute after it, and both ends of the day
BoundaryMinutes ==
    {0, 1, 359, 360, 361, 719, 720, 721, 1079, 1080, 1081, 1319, 1320, 1321, 1439}

Weekdays == 0..6

\* the wall clock reads any of the instants explored
ClockInit ==
    /\ EngineInit
    /\ DeviceIdle
    /\ GeneratorInit
    /\ wall_clock \in [minute : BoundaryMinutes, weekday : Weekdays]
    /\ last_time_context = [empty |-> TRUE]

\* get_time_context, called on its own (the /conversations/start handler
\* does so)
GetTimeContextCall ==
    /\ last_time_context = [empty |-> TRUE]
    /\ last_time_context' = GetTimeContext(wall_clock)
    /\ UNCHANGED wall_clock
    /\ UNCHANGED <<engine_vars, device_vars, generator_vars>>

ClockNext == GetTimeContextCall

SpecClock == ClockInit /\ [][ClockNext]_vars

\* get_time_context has returned
HasTimeContext == "time_of_day" \in DOMAIN last_time_context

\* C28: every local time falls in exactly one time of day, with half-open
\* boundaries: morning [06:00, 12:00), afternoon [12:00, 18:00), evening
\* [18:00, 22:00), night [22:00, 06:00) across midnight; weekend is true
\* exactly on weekdays 5 and 6.
C28_TimeOfDay ==
    HasTimeContext =>
        LET m == wall_clock.minute
            t == last_time_context.time_of_day
        IN  /\ t \in {"morning", "afternoon", "evening", "night"}
            /\ (t = "morning") = (6 * 60 <= m /\ m < 12 * 60)
            /\ (t = "afternoon") = (12 * 60 <= m /\ m < 18 * 60)
            /\ (t = "evening") = (18 * 60 <= m /\ m < 22 * 60)
            /\ (t = "night") = (22 * 60 <= m \/ m < 6 * 60)
            /\ last_time_context.weekend = (wall_clock.weekday \in {5, 6})

\* get_time_context returned "night" at 22:00 sharp on a Saturday
C28_Witness ==
    /\ HasTimeContext
    /\ wall_clock = [minute |-> 1320, weekday |-> 5]
    /\ last_time_context.time_of_day = "night"
    /\ last_time_context.weekend

(***************************************************************************)
(* ConversationGenerator: the conversations of one generator, started and   *)
(* continued in any order.  A conversation id is a fresh uuid4: here the    *)
(* rank of the conversation among those started.  The texts the AI provider *)
(* returns are opaque: each is named after the prompt that asked for it.    *)
(***************************************************************************)
\* self.available_topics
AvailableTopics == <<"actualites", "sante">>

\* the topics start_conversation is called with: none, one that is
\* available, one that is not
TopicInputs == {PyNone, PyStr("sante"), PyStr("cuisine")}

\* the user inputs continue_conversation is called with: none, and a text
UserInputs == {PyNone, PyStr("bonjour")}

\* "if topic is None or topic not in self.available_topics:
\*      topic = random.choice(self.available_topics)": the topics the
\* conversation can get
TopicChoices(topic) ==
    IF topic = PyNone \/ ~Contains(AvailableTopics, topic.val)
    THEN {AvailableTopics[i] : i \in DOMAIN AvailableTopics}
    ELSE {topic.val}

Turn(number, role, content) == [turn |-> number, role |-> role, content |-> content]

\* start_conversation
StartConversation(topic, user_id) ==
    /\ Len(conversation_history) < MaxConversations
    /\ \E chosen \in TopicChoices(topic) :
          LET conversation_id == Len(conversation_history) + 1
              first == 0
          IN  /\ current_conversation_id' = conversation_id
              /\ current_turn' = first
              /\ conversation_history' =
                     Append(conversation_history,
                            [user_id |-> user_id,
                             topic |-> chosen,
                             turns |-> <<Turn(first, "assistant", "introduction")>>,
                             completed |-> FALSE])
              /\ reply' = [conversation_id |-> conversation_id,
                           message |-> "introduction",
                           topic |-> chosen,
                           turn |-> first]
    /\ UNCHANGED <<engine_vars, device_vars, clock_vars>>

\* variant of TurnAtEntry: the turn goes on from the generator's current_turn
TurnAtEntry_Ambient(conversation, ambient_turn) == ambient_turn + 1

\* "self.current_turn = len(conversation['turns'])"
TurnAtEntry(conversation, ambient_turn) == Len(conversation.turns)

\* continue_conversation on a conversation the generator holds (with
\* _end_conversation when the turn limit is reached): the conversation, the
\* current turn and the value returned
Continued(conversation_id, conversation, ambient_turn, user_input, limit) ==
    LET entry == TurnAtEntry(conversation, ambient_turn)
        heard == IF Truthy(user_input)
                 THEN Append(conversation.turns, Turn(entry, "user", user_input.val))
                 ELSE conversation.turns
        turn == IF Truthy(user_input) THEN entry + 1 ELSE entry
    IN  IF turn >= limit
        THEN [conversation |->
                  [conversation EXCEPT
                      !.turns = Append(heard, Turn(turn, "assistant", "conclusion")),
                      !.completed = TRUE],
              current_turn |-> turn,
              reply |-> [conversation_id |-> conversation_id,
                         message |-> "conclusion",
                         topic |-> conversation.topic,
                         turn |-> turn,
                         completed |-> TRUE]]
        ELSE [conversation |->
                  [conversation EXCEPT
                      !.turns = Append(heard, Turn(turn, "assistant", "response"))],
              current_turn |-> turn,
              reply |-> [conversation_id |-> conversation_id,
                         message |-> "response",
                         topic |-> conversation.topic,
                         turn |-> turn]]

NotFound == [error |-> "Conversation non trouvee"]

\* continue_conversation
ContinueConversation(conversation_id, user_input) ==
    /\ IF conversation_id \notin DOMAIN conversation_history
       THEN /\ reply' = NotFound
            /\ UNCHANGED <<conversation_history, current_conversation_id, current_turn>>
       ELSE /\ Len(conversation_history[conversation_id].turns) < MaxStoredTurns
            /\ LET done == Continued(conversation_id,
                                     conversation_history[conversation_id],
                                     current_turn, user_input, config.max_turns)
               IN  /\ conversation_history' =
                          [conversation_history EXCEPT ![conversation_id] =
                              done.conversation]
                   /\ current_conversation_id' = conversation_id
                   /\ current_turn' = done.current_turn
                   /\ reply' = done.reply
    /\ UNCHANGED <<engine_vars, device_vars, clock_vars>>

\* the ids continue_conversation is called with: those of the conversations
\* that can exist, and one that never does
ConversationIds == 1..(MaxConversations + 1)

ConversationNext ==
    \/ \E topic \in TopicInputs, user_id \in UserIds : StartConversation(topic, user_id)
    \/ \E conversation_id \in ConversationIds, user_input \in UserInputs :
           ContinueConversation(conversation_id, user_input)

\* the configuration of the behaviours of the generator: conversations end
\* at their third turn
GeneratorConfig == [ConfigA EXCEPT !.max_turns = 2]

\* a generator just constructed, next to an idle engine and DeviceManager
ConversationInit ==
    /\ config = GeneratorConfig
    /\ decision_rules = config.decision_rules
    /\ user_profile = NoProfile
    /\ last_recommendations = [empty |-> TRUE]
    /\ recommendation_history = <<>>
    /\ DeviceIdle
    /\ ClockIdle
    /\ GeneratorInit

SpecConversation == ConversationInit /\ [][ConversationNext]_vars

\* every stored turn of every conversation carries its position in the turn
\* list, counted from 0 as the generator counts
TurnsNumbered ==
    \A conversation_id \in DOMAIN conversation_history :
        LET turns == conversation_history[conversation_id].turns
        IN  \A i \in 0..(Len(turns) - 1) : turns[i + 1].turn = i

\* C30: over any interleaving of start_conversation and
\* continue_conversation calls on the conversations of one generator, with
\* its single current_turn, the i-th stored turn of every conversation
\* carries turn number i; continue_conversation on one conversation leaves the
\* turns of every other conversation as they are; continue_conversation with
\* an unknown id returns an error and changes nothing.
C30_TurnsStayNumbered ==
    [][/\ TurnsNumbered'
       /\ \A conversation_id \in ConversationIds, user_input \in UserInputs :
             ContinueConversation(conversation_id, user_input) =>
                 IF conversation_id \in DOMAIN conversation_history
                 THEN \A other \in DOMAIN conversation_history \ {conversation_id} :
                          conversation_history'[other].turns
                              = conversation_history[other].turns
                 ELSE /\ "error" \in DOMAIN reply'
                      /\ UNCHANGED <<conversation_history, current_conversation_id,
                                     current_turn>>
                      /\ UNCHANGED <<engine_vars, device_vars, clock_vars>>
      ]_vars

\* two conversations were continued in turn: the first was continued last,
\* after the second had been, and was continued beyond its conclusion; a
\* call with an unknown id was made since
C30_Witness ==
    /\ Len(conversation_history) = 2
    /\ conversation_history[1].completed
    /\ Len(conversation_history[2].turns) = 2
    /\ LET turns == conversation_history[1].turns
       IN  /\ Len(turns) > 3
           /\ turns[Len(turns)].content = "conclusion"
           /\ \E i \in 1..(Len(turns) - 1) : turns[i].content = "conclusion"
    /\ current_conversation_id = 1
    /\ reply = NotFound

====
